---- MODULE Spec2Model ----
(***************************************************************************)
(* A model of Trace (spineda2019/Pursue): the concurrent scan of           *)
(* src/src/logger.rs, and the line source of src/src/map.rs.  Logger::log spawns the workers, walks the tree      *)
(* (populate_queue), sets finish_flag and joins; every worker runs         *)
(* waiting_room -> parse_file -> process_line.  Every mutex-guarded        *)
(* read-modify-write is two steps (lock and load, store and unlock), so    *)
(* that the mutual exclusion of the mutex, and not the grain of the model, *)
(* is what keeps the counters exact.                                       *)
(***************************************************************************)
EXTENDS Integers, Sequences, FiniteSets, TLC

VARIABLES
    tree,                  \* Logger.root_directory: which tree of Trees is scanned
    nworkers,              \* num_cpus::get(), the size of the worker pool
    data,                  \* Logger.data: VecDeque<PathBuf>, paths as entry indices
    finish_flag,           \* Logger.finish_flag
    line_count,            \* Logger.line_count
    keyword_table,         \* Logger.keyword_table
    filetype_table,        \* Logger.filetype_table
    line_count_lock,       \* holder of the line_count mutex, 0 when free
    keyword_table_lock,    \* holder of the keyword_table mutex, 0 when free
    filetype_table_lock,   \* holder of the filetype_table mutex, 0 when free
    log_pc,                \* position of Logger::log on the main thread
    next_entry,            \* populate_queue: the next directory entry to visit
    join_idx,              \* log: the next worker to join
    reported,              \* what print_result printed, None before
    wpc,                   \* each worker's position
    wfile,                 \* waiting_room: found_file, 0 when none
    wline,                 \* parse_file: index of the line being read
    in_multiline_comment,  \* parse_file: in_multiline_comment
    comment_portion,       \* process_line: comment_portion
    wkw,                   \* process_line: index of keyword in KEY_COMMENTS
    wtmp,                  \* the value loaded under a lock
    warnings,              \* number of "complex comment" diagnostics written
    handed,                \* history: calls of parse_file per path
    push_cnt,              \* history: pushes per path
    ops_line,              \* history: increments performed on line_count
    ops_kw,                \* history: increments performed per keyword
    ops_ft,                \* history: increments performed per file type
    whits,                 \* history: keyword increments of the current line
    f_pc,                  \* one parse_file on one thread: its position
    f_type,                \* parse_file: file_type
    f_lines,               \* parse_file: what file_reader.lines() yields
    f_line,                \* parse_file: index of the line to read next
    f_in_multiline_comment,\* parse_file: in_multiline_comment
    f_trace,               \* history: state before, and outcome of, each line
    m_pc,                  \* one Map: "Idle", "New", "Failed", "Mapped",
                           \* "Exhausted" after a None, "Dropped"
    mapped_bytes,          \* Map.mapped_bytes
    byte_location,         \* Map.byte_location
    yielded,               \* history: the lines that next has returned
    m_lines,               \* the texts of the lines written to the file
    m_terms,               \* the terminator written after each of them
    munmaps,               \* history: calls of munmap
    inspected,             \* history: the highest location the last next got
    nones                  \* history: the calls of next that returned None

vars == <<tree, nworkers, data, finish_flag, line_count, keyword_table,
          filetype_table, line_count_lock, keyword_table_lock,
          filetype_table_lock, log_pc, next_entry, join_idx, reported, wpc,
          wfile, wline, in_multiline_comment, comment_portion, wkw, wtmp,
          warnings, handed, push_cnt, ops_line, ops_kw, ops_ft, whits,
          f_pc, f_type, f_lines, f_line, f_in_multiline_comment, f_trace,
          m_pc, mapped_bytes, byte_location, yielded, m_lines, m_terms,
          munmaps, inspected, nones>>

(***************************************************************************)
(* Bounds.                                                                 *)
(***************************************************************************)
MaxWorkers == 3

(***************************************************************************)
(* Option<T> and Result<T, E> as sequences of length at most one.          *)
(***************************************************************************)
None == <<>>
Some(x) == <<x>>
IsSome(o) == o # <<>>
Unwrap(o) == o[1]
Ok(x) == <<x>>
Err == <<>>

Min(S) == CHOOSE x \in S : \A y \in S : x <= y
Max(S) == CHOOSE x \in S : \A y \in S : x >= y

(***************************************************************************)
(* str::find, str::rfind, str::contains and slicing, on byte positions     *)
(* counted from 0 as in Rust.                                              *)
(***************************************************************************)
Matches(line, pat) ==
    {i \in 0..(Len(line) - Len(pat)) : SubSeq(line, i + 1, i + Len(pat)) = pat}

Find(line, pat) ==
    IF Matches(line, pat) = {} THEN None ELSE Some(Min(Matches(line, pat)))

RFind(line, pat) ==
    IF Matches(line, pat) = {} THEN None ELSE Some(Max(Matches(line, pat)))

Contains(line, pat) == Matches(line, pat) # {}

\* A slice that forgets its end: &line[from..].
SliceToEnd(line, from, to) == SubSeq(line, from + 1, Len(line))

\* &line[from..to]: the caller has checked from <= to.
Slice(line, from, to) == SubSeq(line, from + 1, to)

(***************************************************************************)
(* Logger::KEY_COMMENTS and Logger::CPP_FILE_EXTENSIONS.                   *)
(***************************************************************************)
KEY_COMMENTS == <<"TODO", "HACK", "BUG", "FIXME">>
CPP_FILE_EXTENSIONS == {"cpp", "cxx", "cc"}

FileType(name, inline, mstart, mend) ==
    [name |-> name,
     inline_comment_format |-> inline,
     multiline_comment_start_format |-> mstart,
     multiline_comment_end_format |-> mend]

CStyle(name) == FileType(name, Some("//"), Some("/*"), Some("*/"))

\* classify_file: by extension, or by file name when there is no extension.
classify_file(file) ==
    IF IsSome(file.extension)
    THEN LET ext == Unwrap(file.extension) IN
         CASE ext = "c" -> Some(CStyle("C"))
           [] ext = "h" -> Some(CStyle("C Header"))
           [] ext \in CPP_FILE_EXTENSIONS -> Some(CStyle("C++"))
           [] ext = "hpp" -> Some(CStyle("C++ Header"))
           [] ext = "cs" -> Some(CStyle("C#"))
           [] ext = "java" -> Some(CStyle("Java"))
           [] ext = "py" -> Some(FileType("Python", Some("#"), None, None))
           [] ext = "go" -> Some(CStyle("Go"))
           [] ext = "zig" -> Some(FileType("Zig", Some("//"), None, None))
           [] ext = "rs" -> Some(CStyle("Rust"))
           [] ext = "js" -> Some(CStyle("JavaScript"))
           [] ext = "ts" -> Some(CStyle("TypeScript"))
           [] OTHER -> None
    ELSE IF file.file_name = "Makefile"
         THEN Some(FileType("Makefile", Some("#"), None, None))
         ELSE None

(***************************************************************************)
(* process_line up to its keyword loop: the comment portion of a line.     *)
(* outcome is "return" (the early returns), "comment", or "panic" (a slice *)
(* whose start is after its end).                                          *)
(***************************************************************************)
\* An early return that leaves the multiline comment.
ReturnedOutside(in_ml) ==
    [outcome |-> "return", comment |-> "", in_ml |-> FALSE, warned |-> FALSE]

\* The early returns: no comment portion, no keyword loop.
Returned(in_ml) ==
    [outcome |-> "return", comment |-> "", in_ml |-> in_ml, warned |-> FALSE]
\* Arms that report their text and never set the multiline state.
CommentOutside(text, in_ml) ==
    [outcome |-> "comment", comment |-> text, in_ml |-> FALSE, warned |-> FALSE]

\* An arm's comment portion and the multiline state it leaves.
Comment(text, in_ml) ==
    [outcome |-> "comment", comment |-> text, in_ml |-> in_ml, warned |-> FALSE]
\* A fallback that drops the line without a word.
WarnedDropsLine(text, in_ml) == Returned(in_ml)

\* The arm that writes the "complex comment" warning.
Warned(text, in_ml) ==
    [outcome |-> "comment", comment |-> text, in_ml |-> in_ml, warned |-> TRUE]
Panic(in_ml) ==
    [outcome |-> "panic", comment |-> "", in_ml |-> in_ml, warned |-> FALSE]

\* An rfind in place of the find: the last marker, not the first.
FindOptLast(line, format) ==
    IF IsSome(format) THEN RFind(line, Unwrap(format)) ELSE None

\* multiline_start_position and comment_position: find of the marker, if the
\* grammar has one.
FindOpt(line, format) ==
    IF IsSome(format) THEN Find(line, Unwrap(format)) ELSE None
\* A find in place of the rfind: the first end marker, not the last.
RFindOptFirst(line, format) == FindOpt(line, format)

\* multiline_end_position: rfind of the end marker, if the grammar has one.
RFindOpt(line, format) ==
    IF IsSome(format) THEN RFind(line, Unwrap(format)) ELSE None

comment_of(line, filetype, in_ml) ==
    LET ms == FindOpt(line, filetype.multiline_comment_start_format)
        me == RFindOpt(line, filetype.multiline_comment_end_format)
        cp == FindOpt(line, filetype.inline_comment_format)
        n  == Len(line)
    IN
    IF line = "" THEN Returned(in_ml)
    ELSE IF ~IsSome(ms) /\ ~IsSome(me) /\ ~IsSome(cp) /\ ~in_ml
        THEN Returned(in_ml)
    ELSE IF IsSome(ms) /\ IsSome(me) /\ ~IsSome(cp) /\ in_ml
        THEN Comment(line, in_ml)
    ELSE IF ~IsSome(me) /\ in_ml
        THEN Comment(line, in_ml)
    ELSE IF IsSome(ms) /\ IsSome(me) /\ IsSome(cp) /\ in_ml
        THEN Comment(line, in_ml)
    ELSE IF IsSome(ms) /\ ~IsSome(me) /\ ~IsSome(cp) /\ ~in_ml
        THEN Comment(Slice(line, Unwrap(ms), n), TRUE)
    ELSE IF ~IsSome(ms) /\ IsSome(me) /\ ~IsSome(cp)
        THEN Comment(Slice(line, 0, Unwrap(me)), FALSE)
    ELSE IF ~IsSome(ms) /\ IsSome(me) /\ IsSome(cp)
        THEN IF Unwrap(me) < Unwrap(cp)
             THEN Comment(Slice(line, 0, Unwrap(me))
                            \o Slice(line, Unwrap(cp), n), FALSE)
             ELSE Comment(Slice(line, 0, Unwrap(me)), FALSE)
    ELSE IF IsSome(ms) /\ ~IsSome(me) /\ IsSome(cp) /\ ~in_ml
        THEN IF Unwrap(ms) < Unwrap(cp)
             THEN Comment(Slice(line, Unwrap(ms), n), TRUE)
             ELSE Comment(Slice(line, 0, Unwrap(cp))
                            \o Slice(line, Unwrap(ms), n), TRUE)
    ELSE IF IsSome(ms) /\ IsSome(me) /\ ~IsSome(cp) /\ ~in_ml
        THEN IF Unwrap(ms) <= Unwrap(me)
             THEN Comment(Slice(line, Unwrap(ms), Unwrap(me)), in_ml)
             ELSE Panic(in_ml)
    ELSE IF IsSome(ms) /\ IsSome(me) /\ IsSome(cp) /\ ~in_ml
        THEN Warned(line, in_ml)
    ELSE Comment(Slice(line, Unwrap(cp), n), in_ml)

\* A keyword loop without its contains test: every keyword is tallied.
NextHitUntested(comment, from) == from

\* The keyword loop of process_line: the first keyword at index >= from that
\* the comment portion contains, Len(KEY_COMMENTS) + 1 when there is none.
NextHit(comment, from) ==
    LET hits == {k \in from..Len(KEY_COMMENTS) : Contains(comment, KEY_COMMENTS[k])}
    IN IF hits = {} THEN Len(KEY_COMMENTS) + 1 ELSE Min(hits)

(***************************************************************************)
(* The scanned trees.  A file is its name, its extension, whether          *)
(* File::open succeeds and what BufRead::lines yields for it (Ok(text) or  *)
(* Err per line).  A tree is its entries in the order populate_queue       *)
(* visits them and, when a directory of it cannot be read, the number of   *)
(* paths pushed before read_dir fails.                                     *)
(***************************************************************************)
File(name, ext, openable, lines) ==
    [file_name |-> name, extension |-> ext, openable |-> openable, lines |-> lines]

Tree(is_dir, entries, read_error) ==
    [is_dir |-> is_dir, entries |-> entries, read_error |-> read_error]

\* An inline comment holding TODO, then a line of code.
TwoLineTodoFile ==
    File("a.c", Some("c"), TRUE, <<Ok("// TODO: fix"), Ok("int x = 1;")>>)

Trees == <<
    \* the scan root is one file: an inline TODO, then code
    Tree(FALSE, <<TwoLineTodoFile>>, None),
    \* an end marker before a start marker, then a second file
    Tree(TRUE, <<File("bad.c", Some("c"), TRUE, <<Ok("*/ x /*")>>),
                 File("b.c", Some("c"), TRUE, <<Ok("// TODO")>>)>>, None),
    \* a keyword twice and a second keyword on one line
    Tree(TRUE, <<File("k.rs", Some("rs"), TRUE,
                      <<Ok("// BUG BUG HACK"), Ok("y = 2; // z")>>)>>, None),
    \* a multiline comment over three lines, code with a keyword after it
    Tree(TRUE, <<File("m.cc", Some("cc"), TRUE,
                      <<Ok("/* HACK start"), Ok("still inside FIXME here"),
                        Ok("end */ int y; TODO")>>)>>, None),
    \* files that are skipped, an empty file, an unterminated comment
    Tree(TRUE, <<File("notes.txt", Some("txt"), TRUE, <<Ok("// TODO")>>),
                 File("gone.c", Some("c"), FALSE, <<>>),
                 File("open.h", Some("h"), TRUE, <<Ok("/* FIXME"), Err>>),
                 File("Makefile", None, TRUE, <<>>)>>, None),
    \* two files of one language whose keywords meet on every counter
    Tree(TRUE, <<File("p.go", Some("go"), TRUE, <<Ok("// TODO BUG")>>),
                 File("q.go", Some("go"), TRUE, <<Ok("x := 1 /* TODO */")>>)>>,
         None),
    \* a subdirectory that cannot be read after one path was pushed
    Tree(TRUE, <<File("s.py", Some("py"), TRUE, <<Ok("# HACK"), Ok("")>>)>>,
         Some(1)),
    \* a file that ends inside a comment, then a file of code with a keyword
    Tree(TRUE, <<File("u.c", Some("c"), TRUE, <<Ok("/* open BUG")>>),
                 File("v.c", Some("c"), TRUE, <<Ok("int TODO;")>>)>>, None)
>>

Entries == Trees[tree].entries
Paths == 1..Len(Entries)
Workers == 1..nworkers

\* A lock that does not exclude: lock() returns at once.
CanLockAlways(holder) == TRUE

\* The mutex is free: lock() returns only then.
CanLock(holder) == holder = 0

\* A front() in place of pop_front(): the entry stays in the queue.
PopFrontKeeps(queue) == queue

\* VecDeque::pop_front: what is left of the queue.
PopFront(queue) == Tail(queue)

\* A worker that returns as soon as it finds the queue empty.
ShouldReturnOnEmpty(flag) == TRUE

\* waiting_room: return when the flag that was read is set.
ShouldReturn(flag) == flag

\* process_line without its own increment of line_count.
HitLineCountSkipped(loaded) == loaded

\* The line_count that process_line stores for a keyword found.
HitLineCount(loaded) == loaded + 1

\* HashMap get_mut under the lock: the entry's value, None when absent.
Loaded(table, key) == IF key \in DOMAIN table THEN Some(table[key]) ELSE None

\* An insert(name, 1) that is done whether or not the entry exists.
StoredInsertOnly(table, key, loaded) == (key :> 1) @@ table

\* The table with key's entry incremented, or inserted as 1.
Stored(table, key, loaded) ==
    (key :> (IF IsSome(loaded) THEN Unwrap(loaded) + 1 ELSE 1)) @@ table

ZeroHits == [k \in 1..Len(KEY_COMMENTS) |-> 0]

(***************************************************************************)
(* Logger::new, and log up to the point where every worker is spawned: a   *)
(* spawned worker that has not run yet is a worker at Fetch.               *)
(***************************************************************************)
ScanInit ==
    /\ tree \in 1..Len(Trees)
    /\ nworkers \in 1..MaxWorkers
    /\ data = <<>>
    /\ finish_flag = FALSE
    /\ line_count = 0
    /\ keyword_table = [k \in {KEY_COMMENTS[i] : i \in 1..Len(KEY_COMMENTS)} |-> 0]
    /\ filetype_table = <<>>
    /\ line_count_lock = 0
    /\ keyword_table_lock = 0
    /\ filetype_table_lock = 0
    /\ log_pc = "populate"
    /\ next_entry = 1
    /\ join_idx = 1
    /\ reported = None
    /\ wpc = [w \in Workers |-> "Fetch"]
    /\ wfile = [w \in Workers |-> 0]
    /\ wline = [w \in Workers |-> 0]
    /\ in_multiline_comment = [w \in Workers |-> FALSE]
    /\ comment_portion = [w \in Workers |-> ""]
    /\ wkw = [w \in Workers |-> 0]
    /\ wtmp = [w \in Workers |-> None]
    /\ warnings = 0
    /\ handed = [p \in Paths |-> 0]
    /\ push_cnt = [p \in Paths |-> 0]
    /\ ops_line = 0
    /\ ops_kw = [k \in {KEY_COMMENTS[i] : i \in 1..Len(KEY_COMMENTS)} |-> 0]
    /\ ops_ft = <<>>
    /\ whits = [w \in Workers |-> ZeroHits]

\* No parse_file is run apart from the workers'.
NoFile ==
    /\ f_pc = "Idle"
    /\ f_type = CStyle("C")
    /\ f_lines = <<>>
    /\ f_line = 0
    /\ f_in_multiline_comment = FALSE
    /\ f_trace = <<>>

\* No file is mapped.
NoMap ==
    /\ m_pc = "Idle"
    /\ mapped_bytes = <<>>
    /\ byte_location = 0
    /\ yielded = <<>>
    /\ m_lines = <<>>
    /\ m_terms = <<>>
    /\ munmaps = 0
    /\ inspected = 0
    /\ nones = 0

Init == ScanInit /\ NoFile /\ NoMap

shared == <<data, finish_flag, line_count, keyword_table, filetype_table,
            line_count_lock, keyword_table_lock, filetype_table_lock>>
one_file == <<f_pc, f_type, f_lines, f_line, f_in_multiline_comment, f_trace>>
one_map == <<m_pc, mapped_bytes, byte_location, yielded, m_lines, m_terms,
             munmaps, inspected, nones>>
config == <<tree, nworkers, one_file, one_map>>
main == <<log_pc, next_entry, join_idx, reported>>
local == <<wfile, wline, in_multiline_comment, comment_portion, wkw, wtmp, whits>>
history == <<handed, push_cnt, ops_line, ops_kw, ops_ft>>

(***************************************************************************)
(* Logger::log on the main thread.                                         *)
(***************************************************************************)
\* A populate_queue that passes over a directory it cannot read.
LogPopulateIgnoresError ==
    /\ log_pc = "populate"
    /\ IF next_entry <= Len(Entries)
       THEN /\ data' = Append(data, next_entry)
            /\ push_cnt' = [push_cnt EXCEPT ![next_entry] = @ + 1]
            /\ next_entry' = next_entry + 1
            /\ UNCHANGED log_pc
       ELSE /\ log_pc' = "set_flag"
            /\ UNCHANGED <<data, next_entry, push_cnt>>
    /\ UNCHANGED <<config, finish_flag, line_count, keyword_table, filetype_table,
                   line_count_lock, keyword_table_lock, filetype_table_lock,
                   join_idx, reported, wpc, local, warnings, handed, ops_line,
                   ops_kw, ops_ft>>

\* A log that sets the flag when populate_queue has failed.
LogPopulateReleasesOnError ==
    /\ log_pc = "populate"
    /\ IF IsSome(Trees[tree].read_error)
          /\ next_entry - 1 = Unwrap(Trees[tree].read_error)
       THEN /\ log_pc' = "Err"
            /\ finish_flag' = TRUE
            /\ UNCHANGED <<data, next_entry, push_cnt>>
       ELSE IF next_entry <= Len(Entries)
       THEN /\ data' = Append(data, next_entry)
            /\ push_cnt' = [push_cnt EXCEPT ![next_entry] = @ + 1]
            /\ next_entry' = next_entry + 1
            /\ UNCHANGED <<log_pc, finish_flag>>
       ELSE /\ log_pc' = "set_flag"
            /\ UNCHANGED <<data, next_entry, push_cnt, finish_flag>>
    /\ UNCHANGED <<config, line_count, keyword_table, filetype_table,
                   line_count_lock, keyword_table_lock, filetype_table_lock,
                   join_idx, reported, wpc, local, warnings, handed, ops_line,
                   ops_kw, ops_ft>>

\* populate_queue: one directory entry (or the root itself) per step.
LogPopulate ==
    /\ log_pc = "populate"
    /\ IF IsSome(Trees[tree].read_error)
          /\ next_entry - 1 = Unwrap(Trees[tree].read_error)
       THEN /\ log_pc' = "Err"
            /\ UNCHANGED <<data, next_entry, push_cnt>>
       ELSE IF next_entry <= Len(Entries)
       THEN /\ data' = Append(data, next_entry)
            /\ push_cnt' = [push_cnt EXCEPT ![next_entry] = @ + 1]
            /\ next_entry' = next_entry + 1
            /\ UNCHANGED log_pc
       ELSE /\ log_pc' = "set_flag"
            /\ UNCHANGED <<data, next_entry, push_cnt>>
    /\ UNCHANGED <<config, finish_flag, line_count, keyword_table, filetype_table,
                   line_count_lock, keyword_table_lock, filetype_table_lock,
                   join_idx, reported, wpc, local, warnings, handed, ops_line,
                   ops_kw, ops_ft>>

\* The flag written before populate_queue is called.
LogSetFlagEarly ==
    /\ log_pc = "populate"
    /\ ~finish_flag
    /\ finish_flag' = TRUE
    /\ UNCHANGED <<config, data, line_count, keyword_table, filetype_table,
                   line_count_lock, keyword_table_lock, filetype_table_lock,
                   log_pc, next_entry, join_idx, reported, wpc, local, warnings,
                   history>>

\* *self.finish_flag.write().unwrap() = true
LogSetFlag ==
    /\ log_pc = "set_flag"
    /\ finish_flag' = TRUE
    /\ log_pc' = "join"
    /\ UNCHANGED <<config, data, line_count, keyword_table, filetype_table,
                   line_count_lock, keyword_table_lock, filetype_table_lock,
                   next_entry, join_idx, reported, wpc, local, warnings, history>>

\* worker.join(): returns when the thread has ended, by return or by panic.
LogJoin ==
    /\ log_pc = "join"
    /\ join_idx <= nworkers
    /\ wpc[join_idx] \in {"Done", "Panicked"}
    /\ join_idx' = join_idx + 1
    /\ UNCHANGED <<config, shared, log_pc, next_entry, reported, wpc, local,
                   warnings, history>>

\* print_result, then Ok(()).
LogPrint ==
    /\ log_pc = "join"
    /\ join_idx > nworkers
    /\ reported' = Some([line_count |-> line_count,
                         keyword_table |-> keyword_table,
                         filetype_table |-> filetype_table])
    /\ log_pc' = "Ok"
    /\ UNCHANGED <<config, shared, next_entry, join_idx, wpc, local, warnings,
                   history>>

Log == LogPopulate \/ LogSetFlag \/ LogJoin \/ LogPrint

(***************************************************************************)
(* A worker: waiting_room, parse_file and process_line.                    *)
(***************************************************************************)
\* entry = self.data.lock().unwrap().pop_front()
Fetch(w) ==
    /\ w \in Workers
    /\ wpc[w] = "Fetch"
    /\ IF data = <<>>
       THEN /\ wpc' = [wpc EXCEPT ![w] = "CheckFlag"]
            /\ UNCHANGED <<data, wfile, handed>>
       ELSE /\ wfile' = [wfile EXCEPT ![w] = Head(data)]
            /\ data' = PopFront(data)
            /\ handed' = [handed EXCEPT ![Head(data)] = @ + 1]
            /\ wpc' = [wpc EXCEPT ![w] = "ParseFile"]
    /\ UNCHANGED <<config, finish_flag, line_count, keyword_table, filetype_table,
                   line_count_lock, keyword_table_lock, filetype_table_lock, main,
                   wline, in_multiline_comment, comment_portion, wkw, wtmp, whits,
                   warnings, push_cnt, ops_line, ops_kw, ops_ft>>

\* None => if *self.finish_flag.read().unwrap() { return } else { continue }
CheckFlag(w) ==
    /\ w \in Workers
    /\ wpc[w] = "CheckFlag"
    /\ wpc' = [wpc EXCEPT ![w] = IF ShouldReturn(finish_flag) THEN "Done" ELSE "Fetch"]
    /\ UNCHANGED <<config, shared, main, local, warnings, history>>

\* A parse_file that goes on when File::open has failed.
ParseFileOpensAnything(w) ==
    /\ w \in Workers
    /\ wpc[w] = "ParseFile"
    /\ IF IsSome(classify_file(Entries[wfile[w]]))
       THEN /\ wpc' = [wpc EXCEPT ![w] = "FiletypeLock"]
            /\ UNCHANGED wfile
       ELSE /\ wpc' = [wpc EXCEPT ![w] = "Fetch"]
            /\ wfile' = [wfile EXCEPT ![w] = 0]
    /\ UNCHANGED <<config, shared, main, wline, in_multiline_comment,
                   comment_portion, wkw, wtmp, whits, warnings, history>>

\* parse_file: File::open, then classify_file; either may skip the file.
ParseFile(w) ==
    /\ w \in Workers
    /\ wpc[w] = "ParseFile"
    /\ IF Entries[wfile[w]].openable /\ IsSome(classify_file(Entries[wfile[w]]))
       THEN /\ wpc' = [wpc EXCEPT ![w] = "FiletypeLock"]
            /\ UNCHANGED wfile
       ELSE /\ wpc' = [wpc EXCEPT ![w] = "Fetch"]
            /\ wfile' = [wfile EXCEPT ![w] = 0]
    /\ UNCHANGED <<config, shared, main, wline, in_multiline_comment,
                   comment_portion, wkw, wtmp, whits, warnings, history>>

file_type(w) == Unwrap(classify_file(Entries[wfile[w]]))

\* increment_filetype_frequency: lock, get_mut.
FiletypeLock(w) ==
    /\ w \in Workers
    /\ wpc[w] = "FiletypeLock"
    /\ CanLock(filetype_table_lock)
    /\ filetype_table_lock' = w
    /\ wtmp' = [wtmp EXCEPT ![w] = Loaded(filetype_table, file_type(w).name)]
    /\ wpc' = [wpc EXCEPT ![w] = "FiletypeStore"]
    /\ UNCHANGED <<config, data, finish_flag, line_count, keyword_table,
                   filetype_table, line_count_lock, keyword_table_lock, main,
                   wfile, wline, in_multiline_comment, comment_portion, wkw,
                   whits, warnings, history>>

\* A parse_file that keeps the multiline state of the file parsed before.
FiletypeStoreKeepsState(w) ==
    /\ w \in Workers
    /\ wpc[w] = "FiletypeStore"
    /\ filetype_table' = Stored(filetype_table, file_type(w).name, wtmp[w])
    /\ ops_ft' = Stored(ops_ft, file_type(w).name, Loaded(ops_ft, file_type(w).name))
    /\ filetype_table_lock' = 0
    /\ wline' = [wline EXCEPT ![w] = 1]
    /\ wtmp' = [wtmp EXCEPT ![w] = None]
    /\ wpc' = [wpc EXCEPT ![w] = "NextLine"]
    /\ UNCHANGED <<config, data, finish_flag, line_count, keyword_table,
                   line_count_lock, keyword_table_lock, main, wfile,
                   in_multiline_comment,
                   comment_portion, wkw, whits, warnings, handed, push_cnt,
                   ops_line, ops_kw>>

\* increment_filetype_frequency: *value += 1 or insert(name, 1), unlock;
\* then parse_file opens the reader with in_multiline_comment = false.
FiletypeStore(w) ==
    /\ w \in Workers
    /\ wpc[w] = "FiletypeStore"
    /\ filetype_table' = Stored(filetype_table, file_type(w).name, wtmp[w])
    /\ ops_ft' = Stored(ops_ft, file_type(w).name, Loaded(ops_ft, file_type(w).name))
    /\ filetype_table_lock' = 0
    /\ wline' = [wline EXCEPT ![w] = 1]
    /\ in_multiline_comment' = [in_multiline_comment EXCEPT ![w] = FALSE]
    /\ wtmp' = [wtmp EXCEPT ![w] = None]
    /\ wpc' = [wpc EXCEPT ![w] = "NextLine"]
    /\ UNCHANGED <<config, data, finish_flag, line_count, keyword_table,
                   line_count_lock, keyword_table_lock, main, wfile,
                   comment_portion, wkw, whits, warnings, handed, push_cnt,
                   ops_line, ops_kw>>

\* The text process_line gets for a line: "" for a line that is an Err.
LineText(result) == IF result = Err THEN "" ELSE Unwrap(result)

\* for line in file_reader.lines(): the next line, and process_line up to
\* its keyword loop; the end of the file returns to waiting_room.
NextLine(w) ==
    /\ w \in Workers
    /\ wpc[w] = "NextLine"
    /\ IF wline[w] > Len(Entries[wfile[w]].lines)
       THEN /\ wpc' = [wpc EXCEPT ![w] = "Fetch"]
            /\ wfile' = [wfile EXCEPT ![w] = 0]
            /\ wline' = [wline EXCEPT ![w] = 0]
            /\ UNCHANGED <<in_multiline_comment, comment_portion, wkw, warnings>>
       ELSE LET r == comment_of(LineText(Entries[wfile[w]].lines[wline[w]]),
                                file_type(w), in_multiline_comment[w])
                hit == NextHit(r.comment, 1)
            IN /\ in_multiline_comment' = [in_multiline_comment EXCEPT ![w] = r.in_ml]
               /\ comment_portion' = [comment_portion EXCEPT ![w] = r.comment]
               /\ warnings' = IF r.warned THEN warnings + 1 ELSE warnings
               /\ wkw' = [wkw EXCEPT ![w] = IF r.outcome = "comment" THEN hit ELSE 0]
               /\ wpc' = [wpc EXCEPT ![w] =
                            IF r.outcome = "panic" THEN "Panicked"
                            ELSE IF r.outcome = "comment" /\ hit <= Len(KEY_COMMENTS)
                                 THEN "HitLineLock"
                                 ELSE "LineLock"]
               /\ UNCHANGED <<wfile, wline>>
    /\ UNCHANGED <<config, shared, main, wtmp, whits, history>>

\* process_line, a keyword found: self.line_count.lock()
HitLineLock(w) ==
    /\ w \in Workers
    /\ wpc[w] = "HitLineLock"
    /\ CanLock(line_count_lock)
    /\ line_count_lock' = w
    /\ wtmp' = [wtmp EXCEPT ![w] = Some(line_count)]
    /\ wpc' = [wpc EXCEPT ![w] = "HitLineStore"]
    /\ UNCHANGED <<config, data, finish_flag, line_count, keyword_table,
                   filetype_table, keyword_table_lock, filetype_table_lock, main,
                   wfile, wline, in_multiline_comment, comment_portion, wkw,
                   whits, warnings, history>>

\* process_line, a keyword found: *line_count += 1, unlock
HitLineStore(w) ==
    /\ w \in Workers
    /\ wpc[w] = "HitLineStore"
    /\ line_count' = HitLineCount(Unwrap(wtmp[w]))
    /\ ops_line' = ops_line + 1
    /\ line_count_lock' = 0
    /\ wtmp' = [wtmp EXCEPT ![w] = None]
    /\ wpc' = [wpc EXCEPT ![w] = "KeywordLock"]
    /\ UNCHANGED <<config, data, finish_flag, keyword_table, filetype_table,
                   keyword_table_lock, filetype_table_lock, main, wfile, wline,
                   in_multiline_comment, comment_portion, wkw, whits, warnings,
                   handed, push_cnt, ops_kw, ops_ft>>

\* increment_keyword: lock, get_mut.  The else branch locks the table again
\* while the first guard is alive and never returns.
KeywordLock(w) ==
    /\ w \in Workers
    /\ wpc[w] = "KeywordLock"
    /\ CanLock(keyword_table_lock)
    /\ keyword_table_lock' = w
    /\ wtmp' = [wtmp EXCEPT ![w] = Loaded(keyword_table, KEY_COMMENTS[wkw[w]])]
    /\ wpc' = [wpc EXCEPT ![w] =
                 IF KEY_COMMENTS[wkw[w]] \in DOMAIN keyword_table
                 THEN "KeywordStore" ELSE "Deadlocked"]
    /\ UNCHANGED <<config, data, finish_flag, line_count, keyword_table,
                   filetype_table, line_count_lock, filetype_table_lock, main,
                   wfile, wline, in_multiline_comment, comment_portion, wkw,
                   whits, warnings, history>>

\* An increment_keyword whose guard outlives the call.
KeywordStoreKeepsLock(w) ==
    /\ w \in Workers
    /\ wpc[w] = "KeywordStore"
    /\ keyword_table' = Stored(keyword_table, KEY_COMMENTS[wkw[w]], wtmp[w])
    /\ ops_kw' = [ops_kw EXCEPT ![KEY_COMMENTS[wkw[w]]] = @ + 1]
    /\ whits' = [whits EXCEPT ![w][wkw[w]] = @ + 1]
    /\ keyword_table_lock' = w
    /\ wtmp' = [wtmp EXCEPT ![w] = None]
    /\ wkw' = [wkw EXCEPT ![w] = NextHit(comment_portion[w], wkw[w] + 1)]
    /\ wpc' = [wpc EXCEPT ![w] =
                 IF NextHit(comment_portion[w], wkw[w] + 1) <= Len(KEY_COMMENTS)
                 THEN "HitLineLock" ELSE "LineLock"]
    /\ UNCHANGED <<config, data, finish_flag, line_count, filetype_table,
                   line_count_lock, filetype_table_lock, main, wfile, wline,
                   in_multiline_comment, comment_portion, warnings, handed,
                   push_cnt, ops_line, ops_ft>>

\* increment_keyword: *value += 1, unlock; then the keyword loop goes on.
KeywordStore(w) ==
    /\ w \in Workers
    /\ wpc[w] = "KeywordStore"
    /\ keyword_table' = Stored(keyword_table, KEY_COMMENTS[wkw[w]], wtmp[w])
    /\ ops_kw' = [ops_kw EXCEPT ![KEY_COMMENTS[wkw[w]]] = @ + 1]
    /\ whits' = [whits EXCEPT ![w][wkw[w]] = @ + 1]
    /\ keyword_table_lock' = 0
    /\ wtmp' = [wtmp EXCEPT ![w] = None]
    /\ wkw' = [wkw EXCEPT ![w] = NextHit(comment_portion[w], wkw[w] + 1)]
    /\ wpc' = [wpc EXCEPT ![w] =
                 IF NextHit(comment_portion[w], wkw[w] + 1) <= Len(KEY_COMMENTS)
                 THEN "HitLineLock" ELSE "LineLock"]
    /\ UNCHANGED <<config, data, finish_flag, line_count, filetype_table,
                   line_count_lock, filetype_table_lock, main, wfile, wline,
                   in_multiline_comment, comment_portion, warnings, handed,
                   push_cnt, ops_line, ops_ft>>

\* parse_file, after process_line: self.line_count.lock()
LineLock(w) ==
    /\ w \in Workers
    /\ wpc[w] = "LineLock"
    /\ CanLock(line_count_lock)
    /\ line_count_lock' = w
    /\ wtmp' = [wtmp EXCEPT ![w] = Some(line_count)]
    /\ wpc' = [wpc EXCEPT ![w] = "LineStore"]
    /\ UNCHANGED <<config, data, finish_flag, line_count, keyword_table,
                   filetype_table, keyword_table_lock, filetype_table_lock, main,
                   wfile, wline, in_multiline_comment, comment_portion, wkw,
                   whits, warnings, history>>

\* parse_file, after process_line: *line_count += 1, unlock; the next line.
LineStore(w) ==
    /\ w \in Workers
    /\ wpc[w] = "LineStore"
    /\ line_count' = Unwrap(wtmp[w]) + 1
    /\ ops_line' = ops_line + 1
    /\ line_count_lock' = 0
    /\ wtmp' = [wtmp EXCEPT ![w] = None]
    /\ wline' = [wline EXCEPT ![w] = @ + 1]
    /\ whits' = [whits EXCEPT ![w] = ZeroHits]
    /\ wkw' = [wkw EXCEPT ![w] = 0]
    /\ wpc' = [wpc EXCEPT ![w] = "NextLine"]
    /\ UNCHANGED <<config, data, finish_flag, keyword_table, filetype_table,
                   keyword_table_lock, filetype_table_lock, main, wfile,
                   in_multiline_comment, comment_portion, warnings, handed,
                   push_cnt, ops_kw, ops_ft>>

Worker(w) ==
    \/ Fetch(w)
    \/ CheckFlag(w)
    \/ ParseFile(w)
    \/ FiletypeLock(w)
    \/ FiletypeStore(w)
    \/ NextLine(w)
    \/ HitLineLock(w)
    \/ HitLineStore(w)
    \/ KeywordLock(w)
    \/ KeywordStore(w)
    \/ LineLock(w)
    \/ LineStore(w)

Next == Log \/ \E w \in 1..MaxWorkers : Worker(w)

Spec == Init /\ [][Next]_vars

(***************************************************************************)
(* Properties of the scan.                                                 *)
(***************************************************************************)
DiscoverySucceeded == log_pc \in {"set_flag", "join", "Ok"}
AllReturned == \A w \in Workers : wpc[w] = "Done"
Occurrences(queue, p) == Cardinality({i \in 1..Len(queue) : queue[i] = p})

\* C1: no path is lost: once discovery has succeeded and every worker has
\* returned from waiting_room, the queue is empty and every pushed path was
\* handed to parse_file.
C1_NoPathLost ==
    (DiscoverySucceeded /\ AllReturned) =>
        /\ data = <<>>
        /\ \A p \in Paths : push_cnt[p] > 0 => handed[p] > 0

\* C2: a pushed path is popped at most once: parse_file is called at most
\* once per path, and a path that was handed out is not in the queue again.
C2_PoppedAtMostOnce ==
    \A p \in Paths :
        /\ handed[p] <= 1
        /\ handed[p] > 0 => Occurrences(data, p) = 0
        /\ Occurrences(data, p) + handed[p] = push_cnt[p]

C2_Witness ==
    /\ \A p \in Paths : handed[p] = 1
    /\ \E v, w \in Workers : v # w /\ wfile[v] # 0 /\ wfile[w] # 0

(***************************************************************************)
(* The scan done by one thread after discovery: every entry in order,      *)
(* every line in order.  alive is FALSE once a line has panicked.          *)
(***************************************************************************)
KeywordsIn(r) ==
    {KEY_COMMENTS[k] : k \in {i \in 1..Len(KEY_COMMENTS) :
        r.outcome = "comment" /\ Contains(r.comment, KEY_COMMENTS[i])}}

RECURSIVE ScanLines(_, _, _, _, _)
ScanLines(filetype, lines, i, in_ml, acc) ==
    IF i > Len(lines) THEN acc
    ELSE LET r == comment_of(LineText(lines[i]), filetype, in_ml) IN
         IF r.outcome = "panic" THEN [acc EXCEPT !.alive = FALSE]
         ELSE ScanLines(filetype, lines, i + 1, r.in_ml,
                [acc EXCEPT
                   !.line_count = @ + Cardinality(KeywordsIn(r)) + 1,
                   !.keyword_table =
                       [k \in DOMAIN @ |-> IF k \in KeywordsIn(r) THEN @[k] + 1 ELSE @[k]]])

RECURSIVE ScanFiles(_, _, _)
ScanFiles(entries, j, acc) ==
    IF j > Len(entries) \/ ~acc.alive THEN acc
    ELSE IF entries[j].openable /\ IsSome(classify_file(entries[j]))
    THEN LET filetype == Unwrap(classify_file(entries[j])) IN
         ScanFiles(entries, j + 1,
             ScanLines(filetype, entries[j].lines, 1, FALSE,
                 [acc EXCEPT !.filetype_table =
                     Stored(@, filetype.name, Loaded(@, filetype.name))]))
    ELSE ScanFiles(entries, j + 1, acc)

SequentialScan(entries) ==
    LET r == ScanFiles(entries, 1,
                 [line_count |-> 0,
                  keyword_table |-> [k \in {KEY_COMMENTS[i] : i \in 1..Len(KEY_COMMENTS)} |-> 0],
                  filetype_table |-> <<>>,
                  alive |-> TRUE])
    IN [line_count |-> r.line_count, keyword_table |-> r.keyword_table,
        filetype_table |-> r.filetype_table]

\* C3: the result read after the workers have joined is a function of the
\* tree alone: whatever the pool size and the interleaving, it is the result
\* of the scan done by one thread after discovery.
C3_Deterministic ==
    log_pc = "Ok" => Unwrap(reported) = SequentialScan(Entries)

RECURSIVE SumLines(_)
SumLines(S) ==
    IF S = {} THEN 0
    ELSE LET p == CHOOSE x \in S : TRUE
         IN Len(Entries[p].lines) + SumLines(S \ {p})

ParsedPaths ==
    {p \in Paths : /\ handed[p] > 0
                   /\ Entries[p].openable
                   /\ IsSome(classify_file(Entries[p]))}

\* C4: after a scan the total line count is the number of lines of the files
\* that were parsed; the two-line file with an inline TODO gives 2 lines,
\* TODO = 1, the other keywords 0 and one file of its language.
C4_TotalLines ==
    (log_pc = "Ok" /\ AllReturned) =>
        /\ line_count = SumLines(ParsedPaths)
        /\ (Entries = <<TwoLineTodoFile>> /\ handed[1] = 1) =>
              /\ line_count = 2
              /\ keyword_table = [k \in DOMAIN keyword_table |->
                                    IF k = "TODO" THEN 1 ELSE 0]
              /\ filetype_table = ("C" :> 1)

\* C5: a scan runs to completion: once discovery has succeeded, the threads
\* can come to rest (no thread has a step left) only with every worker
\* returned from waiting_room and log returned Ok.
C5_ScanCompletes ==
    (DiscoverySucceeded /\ ~ENABLED Next) => (log_pc = "Ok" /\ AllReturned)

\* C6: a worker enters Done only from the flag check that follows a Fetch
\* on an empty queue, and only when the flag it reads is set.
C6_DoneOnlyAfterEmptyAndFlag ==
    [][\A w \in Workers :
          (wpc[w] # "Done" /\ wpc'[w] = "Done") =>
              (wpc[w] = "CheckFlag" /\ finish_flag)]_vars

C6_Witness ==
    \E w \in Workers : wpc[w] = "Done" /\ \E p \in Paths : handed[p] = 1

AllPushed ==
    /\ next_entry > Len(Entries)
    /\ \A p \in Paths : push_cnt[p] = 1

\* C7: the flag is false at first, is set only when populate_queue has
\* returned with every path pushed, no path is pushed while it is set, and
\* it is never reset.
C7_CompletionSignal ==
    /\ ~finish_flag
    /\ [](finish_flag => (AllPushed /\ log_pc \in {"join", "Ok"}))
    /\ [][finish_flag => (finish_flag' /\ push_cnt' = push_cnt)]_vars

C7_Witness == finish_flag /\ Len(Entries) >= 2 /\ AllPushed /\ data # <<>>

\* C8: no increment is lost: when the scan has ended each counter holds the
\* number of increments that the workers performed on it.
C8_NoLostUpdate ==
    log_pc = "Ok" =>
        /\ line_count = ops_line
        /\ keyword_table = ops_kw
        /\ filetype_table = ops_ft

C8_Witness ==
    /\ log_pc = "Ok"
    /\ nworkers >= 2
    /\ ops_kw["TODO"] = 2
    /\ "Go" \in DOMAIN ops_ft /\ ops_ft["Go"] = 2
    /\ ops_line >= 5

\* C9: the tally is per line: when process_line has returned for a line,
\* each keyword contained in its comment portion was incremented once by it,
\* however often it occurs, and no other keyword was incremented.
C9_TallyPerLine ==
    \A w \in Workers :
        /\ \A k \in 1..Len(KEY_COMMENTS) : whits[w][k] <= 1
        /\ wpc[w] = "LineLock" =>
              \A k \in 1..Len(KEY_COMMENTS) :
                  whits[w][k] = IF Contains(comment_portion[w], KEY_COMMENTS[k])
                                THEN 1 ELSE 0

C9_Witness ==
    \E w \in Workers :
        /\ wpc[w] = "LineLock"
        /\ Cardinality(Matches(comment_portion[w], "BUG")) = 2
        /\ whits[w] = [k \in 1..Len(KEY_COMMENTS) |->
                         IF KEY_COMMENTS[k] \in {"BUG", "HACK"} THEN 1 ELSE 0]

RECURSIVE SumOver(_, _)
SumOver(table, keys) ==
    IF keys = {} THEN 0
    ELSE LET k == CHOOSE x \in keys : TRUE
         IN table[k] + SumOver(table, keys \ {k})

\* C10: in every state the keyword counts add up to at most the line count.
C10_KeywordSumBounded == SumOver(keyword_table, DOMAIN keyword_table) <= line_count

C10_Witness ==
    /\ SumOver(keyword_table, DOMAIN keyword_table) >= 2
    /\ \E w \in Workers : wpc[w] = "KeywordStore"

\* parse_file returns before its first increment for this path.
Skipped(p) == ~Entries[p].openable \/ ~IsSome(classify_file(Entries[p]))

\* C11: a file that cannot be opened, or whose extension or bare name is not
\* recognised, is skipped: the worker holding it is nowhere but at the head
\* of parse_file, and the step that leaves parse_file changes neither the
\* line count nor the keyword counts nor the file type counts and takes the
\* worker back to Fetch, from where it goes on with the paths that remain.
C11_SkippedFileLeavesCounters ==
    /\ [](\A w \in Workers :
            (wfile[w] # 0 /\ Skipped(wfile[w])) => wpc[w] = "ParseFile")
    /\ [][\A w \in Workers :
            (wpc[w] = "ParseFile" /\ Skipped(wfile[w]) /\ wpc'[w] # "ParseFile") =>
                /\ wpc'[w] = "Fetch"
                /\ line_count' = line_count
                /\ keyword_table' = keyword_table
                /\ filetype_table' = filetype_table
                /\ ops_line' = ops_line /\ ops_kw' = ops_kw /\ ops_ft' = ops_ft]_vars

\* One worker has skipped an unrecognised and an unopenable file and is
\* reading the lines of the file pushed after them.
C11_Witness ==
    /\ nworkers = 1
    /\ \E p, q, r \in Paths :
          /\ p < r /\ q < r
          /\ ~Entries[p].openable /\ handed[p] = 1
          /\ Entries[q].openable /\ Skipped(q) /\ handed[q] = 1
          /\ wfile[1] = r /\ wpc[1] = "NextLine" /\ wline[1] = 2
    /\ line_count = 2

\* The walk of this tree meets a directory that read_dir cannot read.
DiscoveryFails ==
    /\ IsSome(Trees[tree].read_error)
    /\ Unwrap(Trees[tree].read_error) <= Len(Entries)

\* C12: an error of the directory walk is a hard failure: on a tree whose
\* walk fails log never gets past populate_queue, it returns the error, and
\* no aggregate result is ever reported, even when files pushed before the
\* failure have been parsed.
C12_DiscoveryFailureIsHard ==
    /\ [](DiscoveryFails => (log_pc \in {"populate", "Err"} /\ reported = None))
    /\ [](log_pc = "Err" => (DiscoveryFails /\ ~finish_flag /\ reported = None))
    /\ [][log_pc = "Err" => (log_pc' = "Err" /\ reported' = None)]_vars

\* log has returned the error after a worker has parsed the file that was
\* pushed before the failure.
C12_Witness ==
    /\ log_pc = "Err"
    /\ \E p \in Paths : handed[p] = 1 /\ ~Skipped(p)
    /\ line_count = 3
    /\ \A w \in Workers : wpc[w] \in {"Fetch", "CheckFlag"}

\* The paths for which parse_file is past increment_filetype_frequency.
FiletypeCounted ==
    {p \in ParsedPaths :
        ~\E w \in Workers : /\ wfile[w] = p
                            /\ wpc[w] \in {"ParseFile", "FiletypeLock", "FiletypeStore"}}

CountOf(table, key) == IF key \in DOMAIN table THEN table[key] ELSE 0

FileTypeNames ==
    {Unwrap(classify_file(Entries[p])).name : p \in {q \in Paths : ~Skipped(q)}}

\* C13: every file that was opened and classified has incremented the file
\* count of its language exactly once, whatever its number of lines: each
\* count is the number of such files of the language that are past the
\* increment; and no step of a worker that holds an empty file changes the
\* line count, so that an empty file adds 0 lines and 1 file.
C13_FileCountedOnce ==
    /\ [](\A name \in FileTypeNames \cup DOMAIN filetype_table :
            CountOf(filetype_table, name) =
                Cardinality({p \in FiletypeCounted :
                                Unwrap(classify_file(Entries[p])).name = name}))
    /\ [][\A w \in Workers :
            (/\ wfile[w] # 0
             /\ Entries[wfile[w]].lines = <<>>
             /\ wpc'[w] # wpc[w]) =>
                (line_count' = line_count /\ ops_line' = ops_line)]_vars

\* The scan of the tree with the empty Makefile has ended: one Makefile, one
\* header, and the three increments of the header's two lines and keyword.
C13_Witness ==
    /\ log_pc = "Ok"
    /\ \E p \in Paths : Entries[p].lines = <<>> /\ p \in FiletypeCounted
    /\ filetype_table = ("C Header" :> 1) @@ ("Makefile" :> 1)
    /\ line_count = 3

(***************************************************************************)
(* parse_file on one thread, from the reader on: the line loop with        *)
(* process_line, its keyword loop and the two increments of line_count     *)
(* taken whole, since no other thread runs.  LineSpec gives process_line   *)
(* one line in either state; FileSpec gives parse_file a whole file.       *)
(***************************************************************************)
MaxChunks == 3
MaxLines == 3

Chunks == {"/*", "*/", "//", "#", "x", "TODO"}

RECURSIVE LinesOf(_)
LinesOf(n) ==
    IF n = 0 THEN {""}
    ELSE LinesOf(n - 1) \cup {l \o c : l \in LinesOf(n - 1), c \in Chunks}

LineSet == LinesOf(MaxChunks)

\* The grammars of a C file and of a Python file.
FileTypes ==
    {Unwrap(classify_file(File("f", Some(ext), TRUE, <<>>))) : ext \in {"c", "py"}}

\* A state inside a multiline comment needs a grammar that can open one.
StatesOf(filetype) ==
    IF IsSome(filetype.multiline_comment_start_format) THEN BOOLEAN ELSE {FALSE}

LineInit ==
    /\ ScanInit
    /\ tree = 1
    /\ nworkers = 1
    /\ f_pc = "Reading"
    /\ f_type \in FileTypes
    /\ f_lines \in {<<Ok(l)>> : l \in LineSet}
    /\ f_line = 1
    /\ f_in_multiline_comment \in StatesOf(f_type)
    /\ f_trace = <<>>
    /\ NoMap

\* A line loop that gives up the file at a line it cannot read.
ProcessLineStopsOnErr ==
    /\ f_pc = "Reading"
    /\ f_line <= Len(f_lines)
    /\ IF f_lines[f_line] = Err
       THEN /\ f_pc' = "Returned"
            /\ UNCHANGED <<f_trace, f_in_multiline_comment, warnings, f_line,
                           line_count, keyword_table>>
       ELSE LET text == LineText(f_lines[f_line])
                r == comment_of(text, f_type, f_in_multiline_comment)
                hits == KeywordsIn(r)
            IN /\ f_trace' = Append(f_trace, [line |-> text,
                                              before |-> f_in_multiline_comment,
                                              result |-> r])
               /\ f_in_multiline_comment' = r.in_ml
               /\ warnings' = IF r.warned THEN warnings + 1 ELSE warnings
               /\ IF r.outcome = "panic"
                  THEN /\ f_pc' = "Panicked"
                       /\ UNCHANGED <<f_line, line_count, keyword_table>>
                  ELSE /\ f_line' = f_line + 1
                       /\ line_count' = line_count + Cardinality(hits) + 1
                       /\ keyword_table' = [k \in DOMAIN keyword_table |->
                             IF k \in hits THEN keyword_table[k] + 1 ELSE keyword_table[k]]
                       /\ UNCHANGED f_pc
    /\ UNCHANGED <<tree, nworkers, data, finish_flag, filetype_table,
                   line_count_lock, keyword_table_lock, filetype_table_lock,
                   main, wpc, local, history, f_type, f_lines, one_map>>

\* The body of the line loop: process_line, then line_count += 1.
ProcessLine ==
    /\ f_pc = "Reading"
    /\ f_line <= Len(f_lines)
    /\ LET text == LineText(f_lines[f_line])
           r == comment_of(text, f_type, f_in_multiline_comment)
           hits == KeywordsIn(r)
       IN /\ f_trace' = Append(f_trace, [line |-> text,
                                         before |-> f_in_multiline_comment,
                                         result |-> r])
          /\ f_in_multiline_comment' = r.in_ml
          /\ warnings' = IF r.warned THEN warnings + 1 ELSE warnings
          /\ IF r.outcome = "panic"
             THEN /\ f_pc' = "Panicked"
                  /\ UNCHANGED <<f_line, line_count, keyword_table>>
             ELSE /\ f_line' = f_line + 1
                  /\ line_count' = line_count + Cardinality(hits) + 1
                  /\ keyword_table' = [k \in DOMAIN keyword_table |->
                        IF k \in hits THEN keyword_table[k] + 1 ELSE keyword_table[k]]
                  /\ UNCHANGED f_pc
    /\ UNCHANGED <<tree, nworkers, data, finish_flag, filetype_table,
                   line_count_lock, keyword_table_lock, filetype_table_lock,
                   main, wpc, local, history, f_type, f_lines, one_map>>

\* lines() yields None: parse_file returns.
EndOfFile ==
    /\ f_pc = "Reading"
    /\ f_line > Len(f_lines)
    /\ f_pc' = "Returned"
    /\ UNCHANGED <<tree, nworkers, shared, main, wpc, local, warnings, history,
                   f_type, f_lines, f_line, f_in_multiline_comment, f_trace,
                   one_map>>

\* What lines() may yield for a line of a file: Ok(text), or Err.
FileLines ==
    {Ok(""), Err, Ok("x TODO"), Ok("/* HACK"), Ok("FIXME */ y"), Ok("// BUG"),
     Ok("*/ z /*")}

\* The files of at most n lines.
FilesOf(n) == UNION {[1..k -> FileLines] : k \in 0..n}

\* parse_file at line 310: the reader is open, the state is outside.
FileInit ==
    /\ ScanInit
    /\ tree = 1
    /\ nworkers = 1
    /\ f_pc = "Reading"
    /\ f_type \in FileTypes
    /\ f_lines \in FilesOf(MaxLines)
    /\ f_line = 1
    /\ f_in_multiline_comment = FALSE
    /\ f_trace = <<>>
    /\ NoMap

ParseNext == ProcessLine \/ EndOfFile

LineSpec == LineInit /\ [][ParseNext]_vars

FileSpec == FileInit /\ [][ParseNext]_vars

(***************************************************************************)
(* Properties of process_line.  Markers are looked up in the line itself.  *)
(***************************************************************************)
HasMarker(line, format) == IsSome(format) /\ Contains(line, Unwrap(format))
FirstAt(line, format) == Min(Matches(line, Unwrap(format)))
LastAt(line, format) == Max(Matches(line, Unwrap(format)))

HasStart(line) == HasMarker(line, f_type.multiline_comment_start_format)
HasEnd(line) == HasMarker(line, f_type.multiline_comment_end_format)
HasInline(line) == HasMarker(line, f_type.inline_comment_format)
StartAt(line) == FirstAt(line, f_type.multiline_comment_start_format)
EndAt(line) == LastAt(line, f_type.multiline_comment_end_format)
InlineAt(line) == FirstAt(line, f_type.inline_comment_format)

\* The line closes the comment: the text before the last end marker is
\* reported, followed at most by the text from an inline marker after it,
\* and the state is outside.
ClosedBy(t) ==
    LET pre == Slice(t.line, 0, EndAt(t.line)) IN
    /\ t.result.outcome = "comment"
    /\ ~t.result.in_ml
    /\ \/ t.result.comment = pre
       \/ /\ HasInline(t.line)
          /\ EndAt(t.line) < InlineAt(t.line)
          /\ t.result.comment = pre \o Slice(t.line, InlineAt(t.line), Len(t.line))

\* C14: in state inside, every non-empty line on which the end marker is
\* found is reported from its beginning up to the last end marker and puts
\* the state outside, whatever other markers it contains.
C14_InsideEndMarkerCloses ==
    \A i \in 1..Len(f_trace) :
        (f_trace[i].before /\ f_trace[i].line # "" /\ HasEnd(f_trace[i].line)) =>
            ClosedBy(f_trace[i])

\* C14 as the code has it: the same, for the lines on which no start marker
\* is found.
C14_InsideEndMarkerNoStartCloses ==
    \A i \in 1..Len(f_trace) :
        (/\ f_trace[i].before
         /\ f_trace[i].line # ""
         /\ HasEnd(f_trace[i].line)
         /\ ~HasStart(f_trace[i].line)) =>
            ClosedBy(f_trace[i])

\* A line with two end markers and no other marker, read in state inside:
\* the comment stops before the second.
C14_Witness ==
    \E i \in 1..Len(f_trace) :
        /\ f_trace[i].before
        /\ f_trace[i].line = "*/x*/"
        /\ f_trace[i].result.comment = "*/x"
        /\ ~f_trace[i].result.in_ml
        /\ ~f_in_multiline_comment

\* C15: in state outside, every line on which a start and an end marker and
\* no inline marker are found is reported as the slice from the start to the
\* end marker and leaves the state outside, in whichever order the two
\* markers stand on the line.
C15_OutsideStartAndEnd ==
    \A i \in 1..Len(f_trace) :
        LET t == f_trace[i] IN
        (~t.before /\ HasStart(t.line) /\ HasEnd(t.line) /\ ~HasInline(t.line)) =>
            /\ t.result.outcome = "comment"
            /\ ~t.result.in_ml
            /\ StartAt(t.line) <= EndAt(t.line) =>
                  t.result.comment = Slice(t.line, StartAt(t.line), EndAt(t.line))

\* C16: in state outside, every line on which a start marker and no end
\* marker is found puts the state inside and is reported from the start
\* marker to its end, or, when an inline marker is found as well, from the
\* earlier of the two positions to its end: no text before that position.
C16_OutsideStartOpens ==
    \A i \in 1..Len(f_trace) :
        LET t == f_trace[i]
            from == IF HasInline(t.line)
                    THEN Min({StartAt(t.line), InlineAt(t.line)})
                    ELSE StartAt(t.line)
        IN
        (~t.before /\ HasStart(t.line) /\ ~HasEnd(t.line)) =>
            /\ t.result.outcome = "comment"
            /\ t.result.in_ml
            /\ t.result.comment = Slice(t.line, from, Len(t.line))

\* C17: in state outside, every line on which a start marker, an end marker
\* and an inline marker are all found has the diagnostic written, is
\* reported whole, leaves the state outside, and the line loop goes on to
\* the next line: the thread does not end on it.
C17_ThreeMarkerFallback ==
    \A i \in 1..Len(f_trace) :
        LET t == f_trace[i] IN
        (~t.before /\ HasStart(t.line) /\ HasEnd(t.line) /\ HasInline(t.line)) =>
            /\ t.result.warned
            /\ warnings > 0
            /\ t.result.outcome = "comment"
            /\ t.result.comment = t.line
            /\ ~t.result.in_ml
            /\ i = Len(f_trace) =>
                  (f_pc \in {"Reading", "Returned"} /\ f_line = i + 1
                   /\ ~f_in_multiline_comment)

\* The line "/**///" was read outside and the loop has gone on to the end of
\* the file.
C17_Witness ==
    /\ f_pc = "Returned"
    /\ warnings = 1
    /\ \E i \in 1..Len(f_trace) :
          /\ ~f_trace[i].before
          /\ f_trace[i].line = "/**///"
          /\ StartAt(f_trace[i].line) = 0
          /\ EndAt(f_trace[i].line) = 2
          /\ InlineAt(f_trace[i].line) = 3
          /\ f_trace[i].result.comment = "/**///"

\* C18: an empty line yields no comment in either state: the step of the
\* line loop that gives process_line an empty line changes neither the
\* multiline state nor any keyword count, and writes no diagnostic.
C18_EmptyLineNoEffect ==
    [][(/\ f_pc = "Reading"
        /\ f_line <= Len(f_lines)
        /\ LineText(f_lines[f_line]) = "") =>
            /\ f_in_multiline_comment' = f_in_multiline_comment
            /\ keyword_table' = keyword_table
            /\ warnings' = warnings
            /\ f_trace' = Append(f_trace, [line |-> "",
                                           before |-> f_in_multiline_comment,
                                           result |-> [outcome |-> "return",
                                                       comment |-> "",
                                                       in_ml |-> f_in_multiline_comment,
                                                       warned |-> FALSE]])]_vars

\* An empty line was read in state inside, which it has left as it was.
C18_Witness ==
    /\ f_in_multiline_comment
    /\ f_pc = "Returned"
    /\ \E i \in 1..Len(f_trace) :
          /\ f_trace[i].line = ""
          /\ f_trace[i].before
          /\ f_trace[i].result.outcome = "return"
    /\ \A k \in DOMAIN keyword_table : keyword_table[k] = 0

OnlyStart(line) == HasStart(line) /\ ~HasEnd(line) /\ ~HasInline(line)
OnlyEnd(line) == HasEnd(line) /\ ~HasStart(line) /\ ~HasInline(line)
NoMarker(line) == ~HasStart(line) /\ ~HasEnd(line) /\ ~HasInline(line)

\* Line n, read outside, has only a start marker, line m > n has only an
\* end marker and the lines between them have no marker.
RoundTrip(n, m) ==
    /\ n < m
    /\ ~f_trace[n].before
    /\ OnlyStart(f_trace[n].line)
    /\ OnlyEnd(f_trace[m].line)
    /\ \A j \in (n + 1)..(m - 1) : NoMarker(f_trace[j].line)

\* C19: the multiline round trip within one file: with lines N and M as in
\* RoundTrip, each line after N up to and including M is read in state
\* inside, and after line M the state is outside again.
C19_MultilineRoundTrip ==
    \A n, m \in 1..Len(f_trace) :
        RoundTrip(n, m) =>
            /\ \A j \in (n + 1)..m : f_trace[j].before
            /\ ~f_trace[m].result.in_ml
            /\ m = Len(f_trace) => ~f_in_multiline_comment
            /\ m < Len(f_trace) => ~f_trace[m + 1].before

\* A comment opened on line 1 and closed on line 3 with a line of text
\* between them, each line with a keyword of its own.
C19_Witness ==
    /\ f_pc = "Returned"
    /\ Len(f_trace) = 3
    /\ RoundTrip(1, 3)
    /\ f_trace[2].line # ""
    /\ f_trace[2].before /\ f_trace[3].before
    /\ ~f_in_multiline_comment
    /\ keyword_table = [k \in DOMAIN keyword_table |->
                          IF k \in {"HACK", "TODO", "FIXME"} THEN 1 ELSE 0]

(***************************************************************************)
(* The line source of src/src/map.rs: a Map over the bytes of a file and   *)
(* its Iterator::next.  A byte is its value; a line that next returns is   *)
(* the sequence of the bytes pushed to built_line.                         *)
(***************************************************************************)
MaxMapLines == 3
MaxNones == 2

LF == 10
CR == 13
Texts == {<<>>, <<97>>, <<97, 98>>}
Terms == {"LF", "CRLF", "CR"}

\* The bytes a writer puts after a line; "EOF" is a last line left open.
TermBytes(term) ==
    CASE term = "LF" -> <<LF>>
      [] term = "CRLF" -> <<CR, LF>>
      [] term = "CR" -> <<CR>>
      [] term = "EOF" -> <<>>

RECURSIVE Encoded(_, _)
Encoded(lines, terms) ==
    IF lines = <<>> THEN <<>>
    ELSE Head(lines) \o TermBytes(Head(terms)) \o Encoded(Tail(lines), Tail(terms))

\* One terminator per line; only the last line may be left open.
TermsFor(n) ==
    {t \in [1..n -> Terms \cup {"EOF"}] : \A i \in 1..(n - 1) : t[i] # "EOF"}

\* self.mapped_bytes.get(location)
Get(bytes, location) ==
    IF location < Len(bytes) THEN Some(bytes[location + 1]) ELSE None

\* A line source that does not move past a CR.
AfterCRStays(bytes, location) == location

\* A line source that takes every CR for a terminator of its own.
AfterCRAlone(bytes, location) == location + 1

\* The byte_location after a CR at location: past the LF of a CRLF pair,
\* else past the CR.
AfterCR(bytes, location) ==
    IF Get(bytes, location + 1) = Some(LF) THEN location + 2 ELSE location + 1

\* The loop of next from byte_location = from, now at location: the item
\* it returns, the byte_location it leaves, and the highest location it has
\* passed to get.
RECURSIVE Scan(_, _, _, _)
Scan(bytes, from, location, built_line) ==
    LET current_char == Get(bytes, location) IN
    IF current_char = Some(LF)
    THEN [item |-> Some(built_line), byte_location |-> location + 1,
          inspected |-> location]
    ELSE IF current_char = Some(CR)
    THEN [item |-> Some(built_line), byte_location |-> AfterCR(bytes, location),
          inspected |-> location + 1]
    ELSE IF IsSome(current_char)
    THEN Scan(bytes, from, location + 1, Append(built_line, Unwrap(current_char)))
    ELSE IF location <= Len(bytes)
    THEN [item |-> Some(built_line), byte_location |-> location + 1,
          inspected |-> location]
    ELSE [item |-> None, byte_location |-> from, inspected |-> location]

\* A file that was written as m_lines with m_terms is given to Map::new.
MapInit ==
    /\ ScanInit
    /\ tree = 1
    /\ nworkers = 1
    /\ NoFile
    /\ m_pc = "New"
    /\ \E n \in 0..MaxMapLines :
          /\ m_lines \in [1..n -> Texts]
          /\ m_terms \in TermsFor(n)
    /\ mapped_bytes = <<>>
    /\ byte_location = 0
    /\ yielded = <<>>
    /\ munmaps = 0
    /\ inspected = 0
    /\ nones = 0

\* Map::new: None when metadata() or mmap fails, and mmap fails for a file
\* without bytes; else the Map over the bytes of the file.
MapNew ==
    /\ m_pc = "New"
    /\ \/ /\ Encoded(m_lines, m_terms) # <<>>
          /\ m_pc' = "Mapped"
          /\ mapped_bytes' = Encoded(m_lines, m_terms)
       \/ /\ m_pc' = "Failed"
          /\ UNCHANGED mapped_bytes
    /\ UNCHANGED <<tree, nworkers, shared, main, wpc, local, warnings, history,
                   one_file, byte_location, yielded, m_lines, m_terms, munmaps,
                   inspected, nones>>

\* One call of next.
MapNext ==
    /\ m_pc \in {"Mapped", "Exhausted"}
    /\ nones < MaxNones
    /\ LET r == Scan(mapped_bytes, byte_location, byte_location, <<>>) IN
       /\ byte_location' = r.byte_location
       /\ inspected' = r.inspected
       /\ IF IsSome(r.item)
          THEN yielded' = Append(yielded, Unwrap(r.item)) /\ UNCHANGED <<m_pc, nones>>
          ELSE m_pc' = "Exhausted" /\ nones' = nones + 1 /\ UNCHANGED yielded
    /\ UNCHANGED <<tree, nworkers, shared, main, wpc, local, warnings, history,
                   one_file, mapped_bytes, m_lines, m_terms, munmaps>>

\* A Map that is dropped and never unmapped.
MapDropLeaks ==
    /\ m_pc \in {"Mapped", "Exhausted"}
    /\ m_pc' = "Dropped"
    /\ UNCHANGED <<tree, nworkers, shared, main, wpc, local, warnings, history,
                   one_file, mapped_bytes, byte_location, yielded, m_lines,
                   m_terms, munmaps, inspected, nones>>

\* Drop for Map: munmap.  The owner may drop the Map after any call.
MapDrop ==
    /\ m_pc \in {"Mapped", "Exhausted"}
    /\ munmaps' = munmaps + 1
    /\ m_pc' = "Dropped"
    /\ UNCHANGED <<tree, nworkers, shared, main, wpc, local, warnings, history,
                   one_file, mapped_bytes, byte_location, yielded, m_lines,
                   m_terms, inspected, nones>>

MapStep == MapNew \/ MapNext \/ MapDrop

MapSpec == MapInit /\ [][MapStep]_vars

\* All the lines next returns for a buffer, from location on.
RECURSIVE Produced(_, _, _)
Produced(bytes, location, acc) ==
    LET r == Scan(bytes, location, location, <<>>) IN
    IF IsSome(r.item)
    THEN Produced(bytes, r.byte_location, Append(acc, Unwrap(r.item)))
    ELSE acc

\* The same terminators, each one that was written turned into LF.
WithLF(terms) == [i \in DOMAIN terms |-> IF terms[i] = "EOF" THEN "EOF" ELSE "LF"]

\* C20: the lines do not depend on the line endings: whatever terminators,
\* LF, CRLF, lone CR or a mix of them, the lines were written with, next
\* returns the lines it returns for the same lines written with LF.
C20_LineEndingIndependence ==
    m_pc = "Exhausted" =>
        yielded = Produced(Encoded(m_lines, WithLF(m_terms)), 0, <<>>)

\* A line ended by a lone CR is followed by an empty line ended by LF: the
\* two terminators are the bytes of one CRLF.
CRMeetsLF ==
    \E i \in 1..(Len(m_lines) - 1) :
        m_terms[i] = "CR" /\ m_lines[i + 1] = <<>> /\ m_terms[i + 1] = "LF"

\* C20 as the code has it: the same, for the mixes in which no lone CR is
\* directly followed by the LF that ends an empty line.
C20_LineEndingIndependenceNoCRLFByMix ==
    (m_pc = "Exhausted" /\ ~CRMeetsLF) =>
        yielded = Produced(Encoded(m_lines, WithLF(m_terms)), 0, <<>>)

\* Three lines, the middle one empty, written with CRLF, CR and LF.
C20_Witness ==
    /\ m_pc = "Exhausted"
    /\ m_terms = <<"CRLF", "CR", "LF">>
    /\ m_lines = <<<<97>>, <<>>, <<97, 98>>>>
    /\ mapped_bytes = <<97, CR, LF, CR, 97, 98, LF>>
    /\ SubSeq(yielded, 1, 3) = m_lines

\* The terminators in a buffer: each CR, alone or with the LF after it, and
\* each LF that no CR precedes.
TerminatorEnds(bytes) ==
    {i \in 1..Len(bytes) :
        \/ bytes[i] = CR /\ ~(i < Len(bytes) /\ bytes[i + 1] = LF)
        \/ bytes[i] = LF}

EndsInTerminator(bytes) == bytes # <<>> /\ bytes[Len(bytes)] \in {LF, CR}

\* The bytes after the last terminator of the buffer.
Remaining(bytes) ==
    IF TerminatorEnds(bytes) = {} THEN bytes
    ELSE SubSeq(bytes, Max(TerminatorEnds(bytes)) + 1, Len(bytes))

\* C21: the end of the buffer: for a buffer that ends in a terminator next
\* returns one line per terminator and no empty line after the last of
\* them; for a buffer that does not, the last line returned is the bytes
\* that remain after the last terminator, and then the sequence ends.
C21_EndOfBufferRule ==
    m_pc = "Exhausted" =>
        IF EndsInTerminator(mapped_bytes)
        THEN Len(yielded) = Cardinality(TerminatorEnds(mapped_bytes))
        ELSE /\ Len(yielded) = Cardinality(TerminatorEnds(mapped_bytes)) + 1
             /\ yielded[Len(yielded)] = Remaining(mapped_bytes)

\* C22: the mapping is released exactly once: munmap is called when a Map
\* that Map::new has built is dropped, once, whether next has returned None
\* or not, and it is not called before, nor for a file that Map::new could
\* not map.
C22_UnmappedExactlyOnce ==
    /\ [](m_pc \in {"New", "Failed", "Mapped", "Exhausted"} => munmaps = 0)
    /\ [](m_pc = "Dropped" => munmaps = 1)
    /\ [](m_pc = "Failed" => mapped_bytes = <<>>)
    /\ [][munmaps' # munmaps =>
            (m_pc \in {"Mapped", "Exhausted"} /\ m_pc' = "Dropped")]_vars
    /\ [][(m_pc \in {"Failed", "Dropped"}) => UNCHANGED vars]_vars

\* A Map over three lines was dropped after its first line.
C22_Witness ==
    /\ m_pc = "Dropped"
    /\ munmaps = 1
    /\ Len(m_lines) = 3
    /\ Len(yielded) = 1
    /\ byte_location < Len(mapped_bytes)

\* C23: the splice: in state inside, a line with an end marker, an inline
\* marker and no start marker is reported as the text before the end marker
\* followed by the text from the inline marker on when the end marker stands
\* before the inline marker, and as the text before the end marker alone
\* otherwise.
C23_SpliceRule ==
    \A i \in 1..Len(f_trace) :
        LET t == f_trace[i]
            pre == Slice(t.line, 0, EndAt(t.line))
        IN
        (t.before /\ HasEnd(t.line) /\ HasInline(t.line) /\ ~HasStart(t.line)) =>
            /\ t.result.outcome = "comment"
            /\ t.result.comment =
                  IF EndAt(t.line) < InlineAt(t.line)
                  THEN pre \o Slice(t.line, InlineAt(t.line), Len(t.line))
                  ELSE pre

\* "x*///" read inside: the end marker at 1, inline markers at 2 and at 3.
C23_Witness ==
    \E i \in 1..Len(f_trace) :
        /\ f_trace[i].before
        /\ f_trace[i].line = "x*///"
        /\ EndAt(f_trace[i].line) = 1
        /\ Matches(f_trace[i].line, "//") = {2, 3}
        /\ f_trace[i].result.comment = "x///"

\* A comment opened on the first line with HACK, a second line without
\* markers with FIXME, a third line that closes it, with TODO in the code
\* after the end marker.
ThreeLineCommentFile ==
    /\ Len(Entries) = 1
    /\ ~Skipped(1)
    /\ Entries[1].lines = <<Ok("/* HACK start"), Ok("still inside FIXME here"),
                            Ok("end */ int y; TODO")>>

\* C24: keywords are counted in comment text only: the scan of the
\* three-line file yields HACK = 1 and FIXME = 1, the comment portion of
\* its third line ends before the end marker, and the TODO in the code
\* after it is added to no keyword count at any time.
C24_KeywordsOnlyInComment ==
    ThreeLineCommentFile =>
        /\ keyword_table["TODO"] = 0 /\ keyword_table["BUG"] = 0
        /\ keyword_table["HACK"] <= 1 /\ keyword_table["FIXME"] <= 1
        /\ \A w \in Workers :
              (wfile[w] = 1 /\ wline[w] = 3 /\ wpc[w] = "LineLock") =>
                  comment_portion[w] = "end "
        /\ (log_pc = "Ok" /\ handed[1] = 1) =>
              keyword_table = [k \in DOMAIN keyword_table |->
                                 IF k \in {"HACK", "FIXME"} THEN 1 ELSE 0]

\* The scan of the three-line file has ended: five increments of the line
\* count, three for the lines and two for the keywords.
C24_Witness ==
    /\ ThreeLineCommentFile
    /\ log_pc = "Ok"
    /\ handed[1] = 1
    /\ keyword_table["HACK"] = 1 /\ keyword_table["FIXME"] = 1
    /\ keyword_table["TODO"] = 0
    /\ line_count = 5

\* A file that ends inside an unterminated comment, followed by a file
\* whose only line is code with a keyword in it.
UnterminatedThenCode ==
    /\ Len(Entries) = 2
    /\ Entries[1].lines = <<Ok("/* open BUG")>>
    /\ Entries[2].lines = <<Ok("int TODO;")>>

\* C25: every parse_file starts in the 'outside' state: a worker about to
\* read the first line of a file is outside a comment, whatever file it
\* parsed before; after a file that ended inside an unterminated comment
\* the code of the next file is not taken for comment text.
C25_StatePerFile ==
    /\ \A w \in Workers :
          (wpc[w] = "NextLine" /\ wline[w] = 1) => ~in_multiline_comment[w]
    /\ UnterminatedThenCode =>
          /\ keyword_table["TODO"] = 0
          /\ \A w \in Workers :
                (wfile[w] = 2 /\ wline[w] = 1 /\ wpc[w] = "LineLock") =>
                    /\ comment_portion[w] = ""
                    /\ ~in_multiline_comment[w]

\* One worker has parsed the file that ends inside a comment, counted its
\* BUG, and is about to read the first line of the next file.
C25_Witness ==
    /\ UnterminatedThenCode
    /\ nworkers = 1
    /\ handed[1] = 1
    /\ keyword_table["BUG"] = 1
    /\ wfile[1] = 2 /\ wline[1] = 1 /\ wpc[1] = "NextLine"
    /\ ~in_multiline_comment[1]

\* C26: the line source is finite and single-pass.  It yields at most one
\* line per byte and one more; once next has returned None the read
\* position is past the buffer and every further call returns None and
\* changes nothing else; the read position never decreases and strictly
\* increases with every line yielded; a call inspects no byte at or after
\* the read position it leaves, but for the one byte looked at after a
\* carriage return.
C26_FiniteSinglePass ==
    /\ [](Len(yielded) <= Len(mapped_bytes) + 1)
    /\ [](byte_location <= Len(mapped_bytes) + 1)
    /\ [](nones > 0 => byte_location = Len(mapped_bytes) + 1)
    /\ [][byte_location' >= byte_location]_vars
    /\ [][(yielded' # yielded) =>
            /\ byte_location' > byte_location
            /\ Len(yielded') = Len(yielded) + 1]_vars
    /\ [][((m_pc = "Exhausted" \/ byte_location > Len(mapped_bytes))
             /\ m_pc' # "Dropped") =>
            /\ nones' = nones + 1
            /\ m_pc' = "Exhausted"
            /\ yielded' = yielded
            /\ byte_location' = byte_location]_vars
    /\ []((Len(yielded) + nones > 0 /\ inspected < Len(mapped_bytes)
             /\ inspected >= byte_location) =>
            /\ inspected = byte_location
            /\ Get(mapped_bytes, byte_location - 1) = Some(CR))

\* next has returned None twice over a buffer with a CR that no LF
\* follows: the byte after that CR was looked at by the call that ended at
\* the CR.
C26_Witness ==
    /\ m_pc = "Exhausted"
    /\ nones = 2
    /\ Len(yielded) = 3
    /\ \E i \in 1..(Len(mapped_bytes) - 1) :
          mapped_bytes[i] = CR /\ mapped_bytes[i + 1] \notin {LF, CR}

\* C27: process_line is total: for every line, every grammar and both
\* values of the multiline state it returns normally, so parse_file is
\* never ended by a slice whose start is after its end.
C27_ProcessLineTotal ==
    /\ f_pc # "Panicked"
    /\ \A i \in 1..Len(f_trace) : f_trace[i].result.outcome # "panic"

\* The locks a worker holds.
Held(w) ==
    {l \in {"line_count", "keyword_table", "filetype_table"} :
        \/ l = "line_count" /\ line_count_lock = w
        \/ l = "keyword_table" /\ keyword_table_lock = w
        \/ l = "filetype_table" /\ filetype_table_lock = w}

\* The lock a worker is about to ask for, if any.
Wanted(w) ==
    IF wpc[w] \in {"HitLineLock", "LineLock"} THEN {"line_count"}
    ELSE IF wpc[w] = "KeywordLock" THEN {"keyword_table"}
    ELSE IF wpc[w] = "FiletypeLock" THEN {"filetype_table"}
    ELSE {}

\* C28: the lock discipline is deadlock-free.  A worker holds at most one
\* lock, holds it only between the lock() and the store of one counter
\* update, and holds none when it asks for one; whoever holds a lock can
\* take its next step; increment_keyword never finds its keyword missing,
\* so no worker is stuck in its insert branch, and the keys of the keyword
\* table stay exactly TODO, HACK, BUG and FIXME.
C28_LockDiscipline ==
    /\ \A w \in Workers :
          /\ Cardinality(Held(w)) <= 1
          /\ Wanted(w) # {} => Held(w) = {}
          /\ line_count_lock = w => wpc[w] \in {"HitLineStore", "LineStore"}
          /\ keyword_table_lock = w => wpc[w] = "KeywordStore"
          /\ filetype_table_lock = w => wpc[w] = "FiletypeStore"
          /\ Held(w) # {} => ENABLED Worker(w)
          /\ wpc[w] # "Deadlocked"
          /\ wpc[w] = "KeywordLock" =>
                KEY_COMMENTS[wkw[w]] \in DOMAIN keyword_table
    /\ {line_count_lock, keyword_table_lock, filetype_table_lock}
          \subseteq Workers \cup {0}
    /\ DOMAIN keyword_table = {KEY_COMMENTS[i] : i \in 1..Len(KEY_COMMENTS)}

\* A worker waits for the keyword table while another worker, between
\* its lock() and its store, holds it.
C28_Witness ==
    \E w, h \in Workers :
        /\ w # h
        /\ wpc[w] = "KeywordLock"
        /\ keyword_table_lock = h
        /\ wpc[h] = "KeywordStore"
        /\ ~ENABLED KeywordLock(w)

\* C29: when discovery fails the workers are never released.  On a tree
\* whose walk fails the flag is never set, log joins no worker, no worker
\* reaches Done, a worker that reads the flag goes back to Fetch, and once
\* log has returned the error every worker that is not parsing can still
\* take a step: it retries Fetch for ever.
C29_WorkersNeverReleased ==
    /\ [](DiscoveryFails =>
            /\ ~finish_flag
            /\ join_idx = 1
            /\ log_pc \notin {"set_flag", "join", "Ok"}
            /\ \A w \in Workers : wpc[w] # "Done")
    /\ [](log_pc = "Err" =>
            \A w \in Workers :
                wpc[w] \in {"Fetch", "CheckFlag"} => ENABLED Worker(w))
    /\ [][\A w \in Workers :
            (DiscoveryFails /\ wpc[w] = "CheckFlag" /\ wpc'[w] # "CheckFlag")
                => wpc'[w] = "Fetch"]_vars
    /\ [][log_pc = "Err" => (~finish_flag' /\ join_idx' = join_idx)]_vars

\* log has returned the error, the queue is empty, the file pushed before
\* the failure is parsed, and two workers go round between the queue and
\* the flag.
C29_Witness ==
    /\ log_pc = "Err"
    /\ ~finish_flag
    /\ data = <<>>
    /\ nworkers = 2
    /\ \E p \in Paths : handed[p] = 1
    /\ line_count = 3
    /\ wpc[1] = "CheckFlag"
    /\ wpc[2] = "Fetch"

\* C30: a line that cannot be read or decoded is treated as an empty line
\* and does not end the file: the step of the line loop that meets it gives
\* process_line the empty text, leaves the multiline state, every keyword
\* count and the diagnostics as they are, adds one to the line count, and
\* the loop goes on with the following line.
C30_UnreadableLineIsEmpty ==
    /\ [](\A i \in 1..Len(f_trace) :
            /\ f_trace[i].line = LineText(f_lines[i])
            /\ f_lines[i] = Err =>
                  /\ f_trace[i].line = ""
                  /\ f_trace[i].result.outcome = "return"
                  /\ f_trace[i].result.in_ml = f_trace[i].before)
    /\ [](f_pc = "Returned" => Len(f_trace) = Len(f_lines))
    /\ [][(/\ f_pc = "Reading"
           /\ f_line <= Len(f_lines)
           /\ f_lines[f_line] = Err) =>
              /\ f_in_multiline_comment' = f_in_multiline_comment
              /\ keyword_table' = keyword_table
              /\ warnings' = warnings
              /\ line_count' = line_count + 1
              /\ f_line' = f_line + 1
              /\ f_pc' = "Reading"]_vars

\* A file whose second line cannot be read, inside a comment that the
\* first line opens and the third closes: all three lines are counted and
\* the keywords on both sides of the unreadable line are found.
C30_Witness ==
    /\ f_lines = <<Ok("/* HACK"), Err, Ok("FIXME */ y")>>
    /\ f_pc = "Returned"
    /\ Len(f_trace) = 3
    /\ f_trace[2].before
    /\ f_trace[3].before
    /\ ~f_in_multiline_comment
    /\ keyword_table["HACK"] = 1 /\ keyword_table["FIXME"] = 1
    /\ line_count = 5

====
